---------------------------- MODULE Spec2Model ----------------------------
(***************************************************************************)
(* Document store and query layer of Django-AI-Agent.                      *)
(*                                                                         *)
(*   src/src/documents/models.py   Document (fields, save, owner cascade)  *)
(*   src/src/AI/tools.py           list_documents, get_document            *)
(*                                                                         *)
(* The store is one table of Document rows keyed by id.  Callers hold      *)
(* in-memory Document instances (constructed or loaded), edit them and     *)
(* call save(), which writes the whole record.  The store serializes the   *)
(* saves: every save is one atomic step.                                   *)
(*                                                                         *)
(* The field `content` is written and read by no code path that the        *)
(* properties below are about and is left out of the records.              *)
(***************************************************************************)
EXTENDS Integers, Sequences, FiniteSets, TLC

\* Bounds of the model.
MaxDocs == 2        \* rows the store ever inserts (ids 1..MaxDocs)
MaxTime == 3        \* last clock value a save may read
MaxStamp == 1       \* timestamps 1..MaxStamp a caller may assign to active_at

\* Encoding of Python's None for a nullable timestamp and for an unset pk.
Unset == 0

Callers == {"c1", "c2"}         \* processes holding Document instances
Owners  == {"u1", "u2"}         \* user identities (AUTH_USER_MODEL rows)
Titles  == {"Report", "Memo"}   \* values of Document.title
Untitled == "Report"            \* the title of documents whose title no step reads
DocIds  == 1..MaxDocs
Times   == 1..MaxTime
Stamps  == {Unset} \cup (1..MaxStamp)  \* values a caller may assign to active_at
NoInstance == [id |-> Unset, owner |-> "", title |-> "", active |-> FALSE,
               active_at |-> Unset, created_at |-> Unset, updated_at |-> Unset,
               held |-> FALSE]

VARIABLES
    users,      \* the owners that exist
    docs,       \* the Document table: id -> row, for the ids that have a row
    docSeq,     \* the last id the store assigned
    now,        \* the clock: what timezone.now() returns to the next save
    mem,        \* caller -> the Document instance it holds (or NoInstance)
    ret         \* the last call made and what it returned

vars == <<users, docs, docSeq, now, mem, ret>>

\* A row or instance of Document (models.py:8-14).
Document(id, owner, title, active, active_at, created_at, updated_at) ==
    [id |-> id, owner |-> owner, title |-> title, active |-> active,
     active_at |-> active_at, created_at |-> created_at,
     updated_at |-> updated_at, held |-> TRUE]

\* The last query-layer call and its return value; NoReturn after any other call.
Returned(op, id, val) == [op |-> op, id |-> id, val |-> val]
NoReturn == Returned("", Unset, Unset)

-----------------------------------------------------------------------------
(* Query layer: src/src/AI/tools.py                                        *)

\* Document.objects.all() in place of the filter.
filter_all == DOMAIN docs

\* Document.objects.filter(active=True): the ids of the matching rows.
filter_active == {i \in DOMAIN docs : docs[i].active}

\* The orders in which the store may hand back a set of rows (no ordering
\* is declared on the model, so the order is the store's choice).
Orderings(S) ==
    {q \in [1..Cardinality(S) -> S] : \A a, b \in 1..Cardinality(S) : q[a] = q[b] => a = b}

\* The loop of list_documents over a queryset given as a sequence of ids.
list_documents(qs) ==
    [k \in 1..Len(qs) |-> [id |-> docs[qs[k]].id, title |-> docs[qs[k]].title]]

\* The lookup without active=True.
get_document_any(document_id) ==
    IF document_id \in DOMAIN docs
    THEN [id |-> docs[document_id].id, title |-> docs[document_id].title]
    ELSE [error |-> "Document not found."]

\* The lookup without id=document_id: the first active row.
get_document_first(document_id) ==
    IF \E i \in DOMAIN docs : docs[i].active
    THEN LET i == CHOOSE j \in DOMAIN docs :
                     docs[j].active /\ \A k \in DOMAIN docs : docs[k].active => j <= k
         IN  [id |-> docs[i].id, title |-> docs[i].title]
    ELSE [error |-> "Document not found."]

\* get_document(document_id): the matching active row projected, or the
\* error value when Document.DoesNotExist is raised.
get_document(document_id) ==
    IF document_id \in DOMAIN docs /\ docs[document_id].active
    THEN [id |-> docs[document_id].id, title |-> docs[document_id].title]
    ELSE [error |-> "Document not found."]

ListDocuments ==
    /\ \E qs \in Orderings(filter_active) :
          ret' = Returned("list_documents", Unset, list_documents(qs))
    /\ UNCHANGED <<users, docs, docSeq, now, mem>>

\* A lookup that writes the row it found back (stamping updated_at).
GetDocument_saving(document_id) ==
    /\ ret' = Returned("get_document", document_id, get_document(document_id))
    /\ docs' = [i \in DOMAIN docs |->
                   IF i = document_id /\ docs[i].active
                   THEN [docs[i] EXCEPT !.updated_at = now] ELSE docs[i]]
    /\ UNCHANGED <<users, docSeq, now, mem>>

GetDocument(document_id) ==
    /\ ret' = Returned("get_document", document_id, get_document(document_id))
    /\ UNCHANGED <<users, docs, docSeq, now, mem>>

-----------------------------------------------------------------------------
(* Document: src/src/documents/models.py                                   *)

\* save() stamping active_at at every save of an active document.
activation_restamp(self, t) ==
    IF self.active THEN t ELSE Unset

\* save() without its elif branch.
activation_no_clear(self, t) ==
    IF self.active /\ self.active_at = Unset THEN t ELSE self.active_at

\* save() testing only `self.active_at is None`.
activation_unset_only(self, t) ==
    IF self.active_at = Unset THEN t
    ELSE IF ~self.active THEN Unset
    ELSE self.active_at

\* Lines 20-23 of save(): the active_at the instance carries into the write.
activation(self, t) ==
    IF self.active /\ self.active_at = Unset THEN t
    ELSE IF ~self.active THEN Unset
    ELSE self.active_at

\* created_at declared auto_now=True: stamped on every write.
pre_save_created_at_auto_now(self, add) == now

\* created_at = DateTimeField(auto_now_add=True): stamped when the row is
\* added, otherwise the instance's value is written.
pre_save_created_at(self, add) == IF add THEN now ELSE self.created_at

\* updated_at = DateTimeField(auto_now=True): stamped on every write.
pre_save_updated_at(self, add) == now

\* super().save(): UPDATE the row with the instance's pk, INSERT when there
\* is none; auto_now_add stamps created_at on INSERT, auto_now stamps
\* updated_at on every write; the owner foreign key must reference a user.
super_save(c, self) ==
    IF self.owner \notin users
    THEN \* IntegrityError: nothing is written; the field pre-save hooks have
         \* already stamped the instance for the attempted INSERT.
         /\ mem' = [mem EXCEPT ![c] = [self EXCEPT !.created_at = pre_save_created_at(self, TRUE),
                                                     !.updated_at = pre_save_updated_at(self, TRUE)]]
         /\ ret' = NoReturn
         /\ UNCHANGED <<docs, docSeq>>
    ELSE IF self.id \in DOMAIN docs
    THEN LET row == [self EXCEPT !.created_at = pre_save_created_at(self, FALSE),
                                 !.updated_at = pre_save_updated_at(self, FALSE)] IN
         /\ docs' = [docs EXCEPT ![self.id] = row]
         /\ mem' = [mem EXCEPT ![c] = row]
         /\ ret' = NoReturn
         /\ UNCHANGED docSeq
    ELSE LET id  == IF self.id = Unset THEN docSeq + 1 ELSE self.id
             row == [self EXCEPT !.id = id,
                                 !.created_at = pre_save_created_at(self, TRUE),
                                 !.updated_at = pre_save_updated_at(self, TRUE)] IN
         /\ id \in DocIds
         /\ docs' = [i \in DOMAIN docs \cup {id} |-> IF i = id THEN row ELSE docs[i]]
         /\ docSeq' = IF self.id = Unset THEN id ELSE docSeq
         /\ mem' = [mem EXCEPT ![c] = row]
         /\ ret' = NoReturn

\* Document.save() on the instance `self` held by caller c.
save(c, self) ==
    super_save(c, [self EXCEPT !.active_at = activation(self, now)])

\* on_delete=DO_NOTHING: the documents stay.
cascade_none(u) == docs

\* owner = ForeignKey(User, on_delete=CASCADE): deleting a user deletes the
\* documents that reference it.
cascade(u) == [i \in {j \in DOMAIN docs : docs[j].owner # u} |-> docs[i]]

DeleteOwner(u) ==
    /\ u \in users
    /\ users' = users \ {u}
    /\ docs' = cascade(u)
    /\ ret' = NoReturn
    /\ UNCHANGED <<docSeq, now, mem>>

-----------------------------------------------------------------------------
(* Callers of the model: creating, loading, editing and saving instances.  *)

\* Document.objects.create(owner=..., title=..., active=..., active_at=...):
\* constructs the instance (pk unset) and saves it.
Create(c, owner, title, active, active_at) ==
    /\ now \in Times
    /\ save(c, Document(Unset, owner, title, active, active_at, Unset, Unset))
    /\ now' = now + 1
    /\ UNCHANGED users

\* Document.objects.get(id=...): a copy of the persisted row.
Load(c, id) ==
    /\ id \in DOMAIN docs
    /\ mem[c] # docs[id]
    /\ mem' = [mem EXCEPT ![c] = docs[id]]
    /\ ret' = NoReturn
    /\ UNCHANGED <<users, docs, docSeq, now>>

\* The caller assigns title, active and active_at of the instance it holds
\* (each possibly to the value it already has) and calls save().
Save(c, title, active, active_at) ==
    /\ mem[c].held
    /\ now \in Times
    /\ save(c, [mem[c] EXCEPT !.title = title, !.active = active, !.active_at = active_at])
    /\ now' = now + 1
    /\ UNCHANGED users

-----------------------------------------------------------------------------
Init ==
    /\ users = Owners
    /\ docs = <<>>
    /\ docSeq = 0
    /\ now = 1
    /\ mem = [c \in Callers |-> NoInstance]
    /\ ret = NoReturn

(***************************************************************************)
(* Spec: the Document model under several callers.  Each caller creates or *)
(* loads an instance, assigns active and active_at as it likes and saves   *)
(* its own copy; owners are deleted under them.                            *)
(***************************************************************************)
Next ==
    \/ \E u \in Owners : DeleteOwner(u)
    \/ \E c \in Callers, o \in Owners, b \in BOOLEAN, a \in Stamps :
          Create(c, o, Untitled, b, a)
    \/ \E c \in Callers, id \in DocIds : Load(c, id)
    \/ \E c \in Callers, b \in BOOLEAN : Save(c, mem[c].title, b, mem[c].active_at)
    \/ \E c \in Callers, b \in BOOLEAN, a \in Stamps : Save(c, mem[c].title, b, a)

Spec == Init /\ [][Next]_vars

(***************************************************************************)
(* SpecFlag: as Spec, with callers that never assign active_at: they       *)
(* create documents with the field's default, load, flip `active` and      *)
(* save.                                                                   *)
(***************************************************************************)
NextFlag ==
    \/ \E c \in Callers, o \in Owners, b \in BOOLEAN : Create(c, o, Untitled, b, Unset)
    \/ \E c \in Callers, id \in DocIds : Load(c, id)
    \/ \E c \in Callers, b \in BOOLEAN : Save(c, mem[c].title, b, mem[c].active_at)

SpecFlag == Init /\ [][NextFlag]_vars

(***************************************************************************)
(* SpecQuery: the query layer over the table.  One caller writes (creates, *)
(* loads, renames, activates, deactivates, saves), owners are deleted, and *)
(* list_documents and get_document are called in every state.              *)
(***************************************************************************)
Writer == CHOOSE c \in Callers : TRUE

NextQuery ==
    \/ ListDocuments
    \/ \E id \in DocIds : GetDocument(id)
    \/ \E u \in Owners : DeleteOwner(u)
    \/ \E o \in Owners, t \in Titles, b \in BOOLEAN : Create(Writer, o, t, b, Unset)
    \/ \E id \in DocIds : Load(Writer, id)
    \/ \E t \in Titles, b \in BOOLEAN : Save(Writer, t, b, mem[Writer].active_at)

SpecQuery == Init /\ [][NextQuery]_vars

-----------------------------------------------------------------------------
(* Properties of Document.save                                             *)

\* Every value an active_at field can hold.
ActiveAtValues == Stamps \cup Times

\* The step is a call of save() by caller c on an instance whose active and
\* active_at are b and a when save() is entered (its owner and title are the
\* ones the instance has after the call; every save reads the clock).
SaveCall(c, b, a) ==
    /\ now' = now + 1
    /\ \/ Create(c, mem'[c].owner, mem'[c].title, b, a)
       \/ Save(c, mem'[c].title, b, a)

\* The instance caller c holds is persisted as it stands.
Persisted(c) == mem[c].held /\ mem[c].id \in DOMAIN docs /\ docs[mem[c].id] = mem[c]

\* C1: a save entered with active = true and active_at unset leaves active_at
\* at the current time, which is not null; a save entered with active = true
\* and active_at set (a re-save of an instance an earlier save stamped) leaves
\* active_at at the value it had.  Both hold of the instance and of the row
\* the save wrote.
C1_FirstActivationStampedThenKept ==
    [][\A c \in Callers, a \in ActiveAtValues :
          SaveCall(c, TRUE, a) =>
             LET at == IF a = Unset THEN now ELSE a IN
             /\ at # Unset
             /\ mem'[c].active_at = at
             /\ mem'[c].id \in DOMAIN docs' =>
                   /\ docs'[mem'[c].id].active
                   /\ docs'[mem'[c].id].active_at = at]_vars

\* A document stamped by the save that created it and saved again later,
\* still active, with the same active_at.
C1_Witness ==
    \E c \in Callers :
       /\ Persisted(c)
       /\ mem[c].active
       /\ mem[c].active_at = mem[c].created_at
       /\ mem[c].updated_at > mem[c].created_at

\* C2: a save entered with active = false leaves active_at unset, in the
\* instance and in the row the save wrote, whatever active_at was before.
C2_DeactivationClears ==
    [][\A c \in Callers, a \in ActiveAtValues :
          SaveCall(c, FALSE, a) =>
             /\ mem'[c].active_at = Unset
             /\ mem'[c].id \in DOMAIN docs' =>
                   /\ ~docs'[mem'[c].id].active
                   /\ docs'[mem'[c].id].active_at = Unset]_vars

\* A row saved inactive with active_at unset of which another caller still
\* holds the copy it loaded when active_at was set.
C2_Witness ==
    \E c, d \in Callers :
       /\ Persisted(c)
       /\ ~mem[c].active /\ mem[c].active_at = Unset
       /\ mem[c].updated_at > mem[c].created_at
       /\ mem[d].held /\ mem[d].id = mem[c].id
       /\ mem[d].active_at # Unset

\* C8: the save that adds a row sets its created_at (to the current time),
\* and no later step changes the created_at of a row.
C8_CreatedAtImmutable ==
    [][\A i \in DOMAIN docs' :
          IF i \in DOMAIN docs
          THEN docs'[i].created_at = docs[i].created_at
          ELSE docs'[i].created_at = now /\ now # Unset]_vars

\* A row saved again after its creation, now inactive, of which a caller
\* holds an earlier, active copy: it was created active and deactivated.
C8_Witness ==
    \E i \in DOMAIN docs, c \in Callers :
       /\ docs[i].updated_at > docs[i].created_at
       /\ ~docs[i].active
       /\ mem[c].held /\ mem[c].id = i /\ mem[c].active
       /\ mem[c].created_at = docs[i].created_at

\* C9: the active_at of an active document is the time of the most recent
\* save that moved the row from inactive (or absent) to active: a step that
\* makes a row active stamps it with the time of the step, and a step that
\* leaves an active row active leaves its active_at alone.
C9_ActiveAtIsLastActivation ==
    [][\A i \in DOMAIN docs' :
          docs'[i].active =>
             IF i \in DOMAIN docs /\ docs[i].active
             THEN docs'[i].active_at = docs[i].active_at
             ELSE docs'[i].active_at = now]_vars

\* C10: a persisted document has active_at set exactly when it is active;
\* so whatever list_documents or get_document returns has active_at set.
C10_ActiveAtIffActive ==
    /\ \A i \in DOMAIN docs : docs[i].active <=> docs[i].active_at # Unset
    /\ \A i \in DocIds :
          "error" \notin DOMAIN get_document(i) => docs[get_document(i).id].active_at # Unset
    /\ \A qs \in Orderings(filter_active) : \A k \in DOMAIN list_documents(qs) :
          docs[list_documents(qs)[k].id].active_at # Unset

\* An active row carrying a stamp its caller supplied (earlier than the
\* row's creation) beside an inactive row.
C10_Witness ==
    \E i, j \in DOMAIN docs :
       /\ docs[i].active /\ docs[i].active_at < docs[i].created_at
       /\ ~docs[j].active

-----------------------------------------------------------------------------
(* Properties of the query layer.  Every step other than a query resets    *)
(* ret, and a query changes nothing else, so a value in ret is always the  *)
(* return value of a call made in the current state of the table.          *)

NotFound == [error |-> "Document not found."]

C4_GetActiveReturnsDocument ==
    (ret.op = "get_document" /\ ret.id \in DOMAIN docs /\ docs[ret.id].active) =>
       /\ "error" \notin DOMAIN ret.val
       /\ DOMAIN ret.val = {"id", "title"}
       /\ ret.val.id = ret.id
       /\ ret.val.title = docs[ret.id].title

\* get_document returned the second of two active documents that differ in
\* title; it has been saved again since it was created.
C4_Witness ==
    /\ ret.op = "get_document"
    /\ "error" \notin DOMAIN ret.val
    /\ \E i \in DOMAIN docs :
          /\ i < ret.id /\ docs[i].active /\ docs[ret.id].active
          /\ docs[i].title # docs[ret.id].title
          /\ docs[ret.id].updated_at > docs[ret.id].created_at

\* C5: for the id of an inactive document, of a deleted document or of no
\* document, get_document returns {error: "Document not found."}: a value.
C5_GetMissingReturnsError ==
    (ret.op = "get_document" /\ ~(ret.id \in DOMAIN docs /\ docs[ret.id].active)) =>
       ret.val = NotFound

\* get_document returned the error for a persisted, inactive document.
C5_Witness ==
    /\ ret.op = "get_document"
    /\ ret.id \in DOMAIN docs /\ ~docs[ret.id].active
    /\ "error" \in DOMAIN ret.val

\* C6: a call of list_documents or get_document changes neither the set of
\* persisted documents nor any field of any of them (nor the owners, the id
\* sequence, the clock or an instance a caller holds).
C6_QueriesReadOnly ==
    [][ret'.op \in {"list_documents", "get_document"} =>
          UNCHANGED <<users, docs, docSeq, now, mem>>]_vars

\* get_document returned the error for an id never assigned while a
\* document is persisted.
C6_Witness ==
    /\ ret.op = "get_document"
    /\ ret.id > docSeq
    /\ "error" \in DOMAIN ret.val
    /\ DOMAIN docs # {}

\* C7: deleting an owner removes exactly the documents it owns; after every
\* step every persisted document has an owner that exists, and what the
\* queries return are persisted documents (never a removed one).
C7_OwnerDeletionCascades ==
    [][/\ users' # users =>
             \E u \in users :
                /\ users' = users \ {u}
                /\ DOMAIN docs' = {i \in DOMAIN docs : docs[i].owner # u}
                /\ \A i \in DOMAIN docs' : docs'[i] = docs[i]
       /\ \A i \in DOMAIN docs' : docs'[i].owner \in users'
       /\ (ret'.op = "get_document" /\ "error" \notin DOMAIN ret'.val) =>
             /\ ret'.val.id \in DOMAIN docs'
             /\ docs'[ret'.val.id].owner \in users'
       /\ ret'.op = "list_documents" =>
             \A k \in DOMAIN ret'.val :
                /\ ret'.val[k].id \in DOMAIN docs'
                /\ docs'[ret'.val[k].id].owner \in users']_vars

\* An owner is deleted, a document it owned is gone and get_document
\* returned the error for it, while a document of another owner is still
\* persisted.
C7_Witness ==
    /\ users # Owners
    /\ ret.op = "get_document"
    /\ ret.id <= docSeq /\ ret.id \notin DOMAIN docs
    /\ ret.val = NotFound
    /\ \E i \in DOMAIN docs : docs[i].owner \in users

=============================================================================
